---- MODULE Spec2Model ----
(***************************************************************************)
(* RelayChecker (src/src/main.cpp): an RS485 command endpoint that drives  *)
(* 11 relays through two PCF8574 expanders, answers digital and analog     *)
(* queries, and turns a held button on IN16 into a "##hardcheck" line.     *)
(*                                                                         *)
(* Text is modelled as sequences of one-character strings, the millisecond *)
(* counter as a 32-bit unsigned value held in two 16-bit limbs <<hi, lo>>. *)
(***************************************************************************)
EXTENDS Integers, Sequences, FiniteSets, TLC

\* ------------------------------------------------------------------ levels

LOW == 0

HIGH == 1

Levels == {LOW, HIGH}

\* ------------------------------------------------- unsigned long (32 bit)

Limb == 65536

U32(n) == <<n \div Limb, n % Limb>>

\* a + b modulo 2^32
U32Add(a, b) ==
    LET lo == a[2] + b[2]
        hi == a[1] + b[1] + (lo \div Limb)
    IN  <<hi % Limb, lo % Limb>>

\* a - b modulo 2^32 (unsigned long subtraction)
U32Sub(a, b) ==
    LET lo == a[2] - b[2]
        br == IF lo < 0 THEN 1 ELSE 0
        hi == a[1] - b[1] - br
    IN  <<(hi + Limb) % Limb, (lo + Limb) % Limb>>

\* d > k for an unsigned long d and a constant 0 <= k < 2^16
U32Gt(d, k) == d[1] > 0 \/ d[2] > k

\* -------------------------------------------------------------- constants

DEBOUNCE_DELAY == 100

STABLE_TIME == 1000

\* delay(50) between the two writes of the escalation
ESCALATION_DELAY == 50

\* ------------------------------------------------------------------- text

CR == "\r"

LF == "\n"

DigitChars == <<"0", "1", "2", "3", "4", "5", "6", "7", "8", "9">>

IsDigit(c) == \E i \in 1..10 : DigitChars[i] = c

DigitVal(c) == (CHOOSE i \in 1..10 : DigitChars[i] = c) - 1

\* isspace() of the C library, over the characters of the model
IsSpace(c) == c \in {" ", "\t", "\n", "\r", "\f"}

RECURSIVE TrimLeft(_)
TrimLeft(s) ==
    IF s # <<>> /\ IsSpace(Head(s)) THEN TrimLeft(Tail(s)) ELSE s

RECURSIVE TrimRight(_)
TrimRight(s) ==
    IF s # <<>> /\ IsSpace(s[Len(s)]) THEN TrimRight(SubSeq(s, 1, Len(s) - 1)) ELSE s

\* String::trim
Trim(s) == TrimRight(TrimLeft(s))

\* String::startsWith
StartsWith(s, p) == Len(s) >= Len(p) /\ SubSeq(s, 1, Len(p)) = p

\* String::endsWith
EndsWith(s, p) == Len(s) >= Len(p) /\ SubSeq(s, Len(s) - Len(p) + 1, Len(s)) = p

\* String::substring(left, right), zero-based, right exclusive
Substring(s, left, right) ==
    LET l == IF left > right THEN right ELSE left
        r0 == IF left > right THEN left ELSE right
        r == IF r0 > Len(s) THEN Len(s) ELSE r0
    IN  IF l >= Len(s) THEN <<>> ELSE SubSeq(s, l + 1, r)

RECURSIVE AtolDigits(_, _)
AtolDigits(s, acc) ==
    IF s # <<>> /\ IsDigit(Head(s))
    THEN AtolDigits(Tail(s), 10 * acc + DigitVal(Head(s)))
    ELSE acc

\* String::toInt (atol): leading white space, an optional sign, then the
\* leading decimal digits; 0 when there are none
ToInt(s) ==
    LET t == TrimLeft(s)
    IN  IF t = <<>> THEN 0
        ELSE IF Head(t) = "-" THEN 0 - AtolDigits(Tail(t), 0)
        ELSE IF Head(t) = "+" THEN AtolDigits(Tail(t), 0)
        ELSE AtolDigits(t, 0)

RECURSIVE DecDigits(_)
DecDigits(n) ==
    IF n < 10 THEN <<DigitChars[n + 1]>>
    ELSE Append(DecDigits(n \div 10), DigitChars[(n % 10) + 1])

RECURSIVE ZeroPad(_, _)
ZeroPad(s, width) == IF Len(s) >= width THEN s ELSE ZeroPad(<<"0">> \o s, width)

AdcTextUnpadded(raw) == DecDigits(raw) \o <<CR>>

\* snprintf(result, sizeof(result), "%04d\r", raw) with char result[6]:
\* at most 5 characters are stored
AdcText(raw) ==
    LET full == ZeroPad(DecDigits(raw), 4) \o <<CR>>
    IN  SubSeq(full, 1, IF Len(full) > 5 THEN 5 ELSE Len(full))

HARDCHECK == <<"#", "#", "h", "a", "r", "d", "c", "h", "e", "c", "k">>

OUT_PREFIX == <<"$", "o", "u", "t">>

IN_PREFIX == <<"$", "i", "n">>

AD_CMD == <<"$", "a", "d">>

ON_SUFFIX == <<"o", "n">>

ON_RESPONSE == <<"o", "n", CR>>

OFF_RESPONSE == <<"o", "f", "f", CR>>

\* ----------------------------------------------------------------- bounds

\* polls at which millis() has advanced since it was last read
MaxTicks == 6

\* the same, in the runs that also carry a command
LoopTicks == 3

\* long idle periods (the counter runs on while nothing else changes)
MaxIdle == 1

\* an idle period advances the counter by 2^32 - IdleBack
IdleBack == 1102

\* commands handed to handleCommand in the dispatcher specification
MaxDispatch == 2

TimeSteps == {1, 100, 900}

\* raw samples analogRead(36) may return (12-bit resolution: 0..4095)
AdcSamples == {0, 7, 10, 999, 2048, 4095}

\* true elapsed times are tracked up to STABLE_TIME + 1 and saturate there
ElapsedCap == STABLE_TIME + 1

Sat(x) == IF x > ElapsedCap THEN ElapsedCap ELSE x

\* ------------------------------------------------------------------ state

VARIABLES
    initializedIn16,   \* main.cpp:16
    lastStateIn16,     \* main.cpp:17
    lastChangeTime,    \* main.cpp:18
    stableTime,        \* main.cpp:19
    wasStable,         \* main.cpp:20
    cmd,               \* main.cpp:167, the line buffer of loop()
    pcf8574_1,         \* main.cpp:8, output pins P0..P7 (OUT1..OUT8)
    pcf8574_2,         \* main.cpp:9, output pins P0..P7 (OUT9..OUT11 on P0..P2)
    pc,                \* where loop() is: "loop" or inside delay(50): "delay"
    millis,            \* the millisecond counter read by millis()
    rx,                \* Serial2 receive FIFO: bytes arrived and not yet read
    tx,                \* Serial2: the writes made so far, in order
    wire,              \* bytes the remote side has still to send
    ticksLeft,         \* time steps left
    idleLeft,          \* idle periods left
    log,               \* one record per handleCommand call: what it did
    eaten,             \* the bytes loop() has read from Serial2 so far
    hold,              \* the current stretch: "none", "init", "accepted", "bounced"
    sinceStart,        \* true ms since the timers were last set (saturating)
    polledAt,          \* sinceStart at the latest poll
    holdTx,            \* what the debounce machine wrote since the timers were set
    sincePoll,         \* true ms from the latest poll to the latest counter value
    otherAge,          \* true ms since the latest poll that read the other level
    flipFrom           \* <<>>, or if the latest poll saw a level change one record:
                       \*   was: stableTime before that poll
                       \*   inWindow: the poll came no more than DEBOUNCE_DELAY
                       \*     after the timers were last set
                       \*   gap: true ms since the poll before it
                       \*   revert: the poll before it saw a change too
                       \*   base, baseInWindow: was and inWindow of that poll

progVars == <<initializedIn16, lastStateIn16, lastChangeTime, stableTime, wasStable,
              cmd, pcf8574_1, pcf8574_2, pc>>

debVars == <<initializedIn16, lastStateIn16, lastChangeTime, stableTime, wasStable>>

envVars == <<millis, rx, tx, wire, ticksLeft, idleLeft>>

obsVars == <<log, eaten, hold, sinceStart, polledAt, holdTx, sincePoll, otherAge, flipFrom>>

debObs == <<hold, sinceStart, polledAt, holdTx, sincePoll, otherAge, flipFrom>>

vars == <<progVars, envVars, obsVars>>

\* --------------------------------------------------------- handleCommand

RelayLevelActiveHigh(relais_on) == IF relais_on THEN HIGH ELSE LOW

\* relais_on ? LOW : HIGH
RelayLevel(relais_on) == IF relais_on THEN LOW ELSE HIGH

RelayPinSplitLate(relayNr) ==
    LET pcf_idx == relayNr - 1
    IN  IF pcf_idx <= 8 THEN [chip |-> 1, pin |-> pcf_idx]
        ELSE [chip |-> 2, pin |-> pcf_idx - 8]

\* pcf_idx = relayNr - 1; pcf_idx < 8 goes to pcf8574_1, else pcf8574_2 at pcf_idx - 8
RelayPin(relayNr) ==
    LET pcf_idx == relayNr - 1
    IN  IF pcf_idx < 8 THEN [chip |-> 1, pin |-> pcf_idx]
        ELSE [chip |-> 2, pin |-> pcf_idx - 8]

RelayNrValidUpTo12(relayNr) == relayNr >= 1 /\ relayNr <= 12

RelayNrValid(relayNr) == relayNr >= 1 /\ relayNr <= 11

InputNrValid(inNr) == inNr >= 1 /\ inNr <= 8

NoEffect(arg, c) ==
    [arg |-> arg, cmd |-> c, writes |-> <<>>, reads |-> <<>>, adc |-> <<>>, sent |-> <<>>]

handleInputCheckActiveHigh(e, idx, state) ==
    [e EXCEPT !.reads = Append(@, [pin |-> idx, level |-> state]),
              !.sent = Append(@, IF state = HIGH THEN ON_RESPONSE ELSE OFF_RESPONSE)]

\* handleInputCheck(idx), state being what pcf8574_in.digitalRead(idx) returns
handleInputCheck(e, idx, state) ==
    [e EXCEPT !.reads = Append(@, [pin |-> idx, level |-> state]),
              !.sent = Append(@, IF state = LOW THEN ON_RESPONSE ELSE OFF_RESPONSE)]

\* handleAdcRequest(), raw being what analogRead(36) returns
handleAdcRequest(e, raw) ==
    [e EXCEPT !.adc = Append(@, raw), !.sent = Append(@, AdcText(raw))]

\* the relay branch of handleCommand
handleRelay(e, c) ==
    LET relayNr == ToInt(Substring(c, 4, 6))
        relais_on == EndsWith(c, ON_SUFFIX)
        p == RelayPin(relayNr)
    IN  IF RelayNrValid(relayNr)
        THEN [e EXCEPT !.writes = Append(@, [chip |-> p.chip, pin |-> p.pin,
                                             level |-> RelayLevel(relais_on)])]
        ELSE e

\* handleCommand(arg): what the call does, as a record of its expander writes,
\* expander reads, analog reads and transport writes
handleCommand(arg, state, raw) ==
    LET c == Trim(arg)
        e == NoEffect(arg, c)
    IN  IF c = HARDCHECK THEN e
        ELSE IF StartsWith(c, OUT_PREFIX) /\ Len(c) >= 8 THEN handleRelay(e, c)
        ELSE IF StartsWith(c, IN_PREFIX) /\ Len(c) >= 5
             THEN LET inNr == ToInt(Substring(c, 3, 5))
                  IN  IF InputNrValid(inNr) THEN handleInputCheck(e, inNr - 1, state) ELSE e
        ELSE IF c = AD_CMD THEN handleAdcRequest(e, raw)
        ELSE e

RECURSIVE ApplyWritesToggle(_, _, _)
ApplyWritesToggle(bank, chip, writes) ==
    IF writes = <<>> THEN bank
    ELSE LET w == Head(writes)
         IN  ApplyWritesToggle(IF w.chip = chip
                               THEN [bank EXCEPT ![w.pin] = IF w.level = LOW THEN 1 - @ ELSE HIGH]
                               ELSE bank,
                               chip, Tail(writes))

\* PCF8574::digitalWrite on one expander
RECURSIVE ApplyWrites(_, _, _)
ApplyWrites(bank, chip, writes) ==
    IF writes = <<>> THEN bank
    ELSE LET w == Head(writes)
         IN  ApplyWrites(IF w.chip = chip THEN [bank EXCEPT ![w.pin] = w.level] ELSE bank,
                         chip, Tail(writes))

\* what the collaborators may return to a call of handleCommand: a level from
\* pcf8574_in.digitalRead if the call reads an input, a sample from
\* analogRead(36) if it samples (values it does not read are left fixed)
EnvInputs(arg) ==
    LET probe == handleCommand(arg, HIGH, 0)
    IN  {[state |-> s, raw |-> r] :
            s \in (IF probe.reads # <<>> THEN Levels ELSE {HIGH}),
            r \in (IF probe.adc # <<>> THEN AdcSamples ELSE {0})}

\* a call of handleCommand on the state
Dispatch(arg) ==
    \E env \in EnvInputs(arg) :
        LET e == handleCommand(arg, env.state, env.raw)
        IN  /\ pcf8574_1' = ApplyWrites(pcf8574_1, 1, e.writes)
            /\ pcf8574_2' = ApplyWrites(pcf8574_2, 2, e.writes)
            /\ tx' = tx \o e.sent
            /\ log' = Append(log, e)

\* ------------------------------------------------ checkInput16ForHardcheck

DebounceElapsedInclusive(currentTime, lct) ==
    U32Sub(currentTime, lct) = U32(DEBOUNCE_DELAY)
        \/ U32Gt(U32Sub(currentTime, lct), DEBOUNCE_DELAY)

\* (currentTime - lastChangeTime) > DEBOUNCE_DELAY
DebounceElapsed(currentTime, lct) == U32Gt(U32Sub(currentTime, lct), DEBOUNCE_DELAY)

StableElapsedInclusive(currentTime, st) ==
    U32Sub(currentTime, st) = U32(STABLE_TIME) \/ U32Gt(U32Sub(currentTime, st), STABLE_TIME)

\* (currentTime - stableTime) > STABLE_TIME
StableElapsed(currentTime, st) == U32Gt(U32Sub(currentTime, st), STABLE_TIME)

In16InitialiseNoStamp(d, state, currentTime) ==
    [d EXCEPT !.lastStateIn16 = state, !.initializedIn16 = TRUE]

\* the first poll: record the level and both timestamps
In16Initialise(d, state, currentTime) ==
    [d EXCEPT !.lastStateIn16 = state, !.initializedIn16 = TRUE,
              !.lastChangeTime = currentTime, !.stableTime = currentTime]

In16ChangedKeepsFlag(d, state, currentTime) ==
    IF DebounceElapsed(currentTime, d.lastChangeTime)
    THEN [d EXCEPT !.lastChangeTime = currentTime, !.stableTime = currentTime,
                   !.lastStateIn16 = state]
    ELSE [d EXCEPT !.lastStateIn16 = state]

In16ChangedRestartsDebounce(d, state, currentTime) ==
    IF DebounceElapsed(currentTime, d.lastChangeTime)
    THEN [d EXCEPT !.lastChangeTime = currentTime, !.stableTime = currentTime,
                   !.wasStable = FALSE, !.lastStateIn16 = state]
    ELSE [d EXCEPT !.lastChangeTime = currentTime, !.lastStateIn16 = state]

In16ChangedAlwaysReset(d, state, currentTime) ==
    [d EXCEPT !.lastChangeTime = currentTime, !.stableTime = currentTime,
              !.wasStable = FALSE, !.lastStateIn16 = state]

\* a level change: the timers are reset only after DEBOUNCE_DELAY, the level
\* is recorded either way
In16Changed(d, state, currentTime) ==
    IF DebounceElapsed(currentTime, d.lastChangeTime)
    THEN [d EXCEPT !.lastChangeTime = currentTime, !.stableTime = currentTime,
                   !.wasStable = FALSE, !.lastStateIn16 = state]
    ELSE [d EXCEPT !.lastStateIn16 = state]

In16EscalatesUnlatched(d, currentTime) == StableElapsed(currentTime, d.stableTime)

\* the level is as it was: is the escalation due?
In16Escalates(d, currentTime) == ~d.wasStable /\ StableElapsed(currentTime, d.stableTime)

In16Confirmed(d) == [d EXCEPT !.wasStable = TRUE]

\* one call of checkInput16ForHardcheck as a step function: the new state
\* and the branch taken ("init", "accepted", "bounced", "escalate", "same")
checkInput16Step(d, state, currentTime) ==
    IF ~d.initializedIn16
    THEN [d |-> In16Initialise(d, state, currentTime), branch |-> "init"]
    ELSE IF state # d.lastStateIn16
    THEN [d |-> In16Changed(d, state, currentTime),
          branch |-> IF DebounceElapsed(currentTime, d.lastChangeTime)
                     THEN "accepted" ELSE "bounced"]
    ELSE IF In16Escalates(d, currentTime)
    THEN [d |-> In16Confirmed(d), branch |-> "escalate"]
    ELSE [d |-> d, branch |-> "same"]

cmdFresh(buf) == <<>>

\* static String cmd: the buffer of loop() keeps its content from one call of
\* loop() to the next
cmdKept(buf) == buf

DrainDoneAnytime == TRUE

\* the while loop of loop() ends: Serial2.available() returns 0
DrainDone == rx = <<>>

In16 ==
    [initializedIn16 |-> initializedIn16, lastStateIn16 |-> lastStateIn16,
     lastChangeTime |-> lastChangeTime, stableTime |-> stableTime,
     wasStable |-> wasStable]

\* checkInput16ForHardcheck up to delay(50); it is called once the while loop
\* of loop() finds Serial2 empty. state is what pcf8574_in2.digitalRead(7)
\* returns; millis() returns a value dt ms after the value it returned last.
checkInput16ForHardcheck ==
    /\ pc = "loop"
    /\ DrainDone
    /\ \E state \in Levels, dt \in {0} \cup TimeSteps :
        LET currentTime == U32Add(millis, U32(dt))
            r == checkInput16Step(In16, state, currentTime)
            b == r.branch
            elapsed == Sat(sinceStart + dt)
            reset == b \in {"init", "accepted"}
            changed == b \in {"accepted", "bounced"}
        IN  /\ dt > 0 => ticksLeft > 0
            /\ ticksLeft' = IF dt > 0 THEN ticksLeft - 1 ELSE ticksLeft
            /\ millis' = currentTime
            /\ initializedIn16' = r.d.initializedIn16
            /\ lastStateIn16' = r.d.lastStateIn16
            /\ lastChangeTime' = r.d.lastChangeTime
            /\ stableTime' = r.d.stableTime
            /\ wasStable' = r.d.wasStable
            /\ tx' = IF b = "escalate" THEN Append(tx, <<CR>>) ELSE tx
            /\ pc' = IF b = "escalate" THEN "delay" ELSE "loop"
            /\ hold' = IF reset THEN b ELSE IF b = "bounced" THEN "bounced" ELSE hold
            /\ sinceStart' = IF reset THEN 0 ELSE elapsed
            /\ polledAt' = IF reset THEN 0 ELSE elapsed
            /\ holdTx' = IF reset THEN <<>>
                         ELSE IF b = "escalate" THEN Append(holdTx, <<CR>>) ELSE holdTx
            /\ sincePoll' = 0
            /\ otherAge' = IF b = "init" THEN ElapsedCap
                           ELSE IF changed THEN Sat(sincePoll + dt)
                           ELSE Sat(otherAge + dt)
            /\ flipFrom' = IF changed
                           THEN <<[inWindow |-> elapsed <= DEBOUNCE_DELAY,
                                   gap |-> Sat(sincePoll + dt),
                                   revert |-> flipFrom # <<>>,
                                   base |-> IF flipFrom # <<>> THEN flipFrom[1].was
                                            ELSE stableTime,
                                   baseInWindow |-> flipFrom # <<>> /\ flipFrom[1].inWindow,
                                   was |-> stableTime]>>
                           ELSE <<>>
    /\ cmd' = cmdKept(cmd)
    /\ UNCHANGED <<pcf8574_1, pcf8574_2, rx, wire, idleLeft, log, eaten>>

\* the rest of the escalation: delay(50) is over, "##hardcheck\r" is written
EscalationDelayDone ==
    /\ pc = "delay"
    /\ pc' = "loop"
    /\ millis' = U32Add(millis, U32(ESCALATION_DELAY))
    /\ tx' = Append(tx, HARDCHECK \o <<CR>>)
    /\ holdTx' = Append(holdTx, HARDCHECK \o <<CR>>)
    /\ sinceStart' = Sat(sinceStart + ESCALATION_DELAY)
    /\ sincePoll' = Sat(sincePoll + ESCALATION_DELAY)
    /\ otherAge' = Sat(otherAge + ESCALATION_DELAY)
    /\ UNCHANGED <<debVars, cmd, pcf8574_1, pcf8574_2, rx, wire, ticksLeft, idleLeft,
                   log, eaten, hold, polledAt, flipFrom>>

\* ------------------------------------------------------------------- loop

IsTerminatorCROnly(c) == c = CR

\* c == '\r' || c == '\n'
IsTerminator(c) == c = CR \/ c = LF

ReadByteDuringDelay ==
    /\ rx # <<>>
    /\ LET c == Head(rx)
       IN  /\ rx' = Tail(rx)
           /\ eaten' = Append(eaten, c)
           /\ IF IsTerminator(c)
              THEN IF Len(cmd) > 0
                   THEN Dispatch(cmd) /\ cmd' = <<>>
                   ELSE UNCHANGED <<cmd, pcf8574_1, pcf8574_2, tx, log>>
              ELSE cmd' = Append(cmd, c) /\ UNCHANGED <<pcf8574_1, pcf8574_2, tx, log>>
    /\ UNCHANGED <<debVars, pc, millis, wire, ticksLeft, idleLeft, debObs>>

\* one pass of the while loop of loop(): read a byte, assemble, dispatch
ReadByte ==
    /\ pc = "loop"
    /\ rx # <<>>
    /\ LET c == Head(rx)
       IN  /\ rx' = Tail(rx)
           /\ eaten' = Append(eaten, c)
           /\ IF IsTerminator(c)
              THEN IF Len(cmd) > 0
                   THEN Dispatch(cmd) /\ cmd' = <<>>
                   ELSE UNCHANGED <<cmd, pcf8574_1, pcf8574_2, tx, log>>
              ELSE cmd' = Append(cmd, c) /\ UNCHANGED <<pcf8574_1, pcf8574_2, tx, log>>
    /\ UNCHANGED <<debVars, pc, millis, wire, ticksLeft, idleLeft, debObs>>

\* the body of the while loop applied to bytes in turn, from the buffer buf
\* and the commands out handed to handleCommand so far
RECURSIVE Assemble(_, _, _)
Assemble(bytes, buf, out) ==
    IF bytes = <<>> THEN [cmds |-> out, cmd |-> buf]
    ELSE LET c == Head(bytes)
         IN  IF IsTerminator(c)
             THEN IF Len(buf) > 0
                  THEN Assemble(Tail(bytes), <<>>, Append(out, buf))
                  ELSE Assemble(Tail(bytes), buf, out)
             ELSE Assemble(Tail(bytes), Append(buf, c), out)

\* ------------------------------------------------------------ environment

\* the UART receives the next byte of the remote side
Arrive ==
    /\ wire # <<>>
    /\ rx' = Append(rx, Head(wire))
    /\ wire' = Tail(wire)
    /\ UNCHANGED <<progVars, millis, tx, ticksLeft, idleLeft, obsVars>>

IdleJump == U32Sub(U32(0), U32(IdleBack))

\* a long quiet period: the level stays as it is and has been confirmed, so
\* the polls of the period change nothing; the counter advances by 2^32 - IdleBack
Idle ==
    /\ pc = "loop"
    /\ DrainDone
    /\ idleLeft > 0
    /\ initializedIn16
    /\ wasStable
    /\ millis' = U32Add(millis, IdleJump)
    /\ idleLeft' = idleLeft - 1
    /\ sinceStart' = ElapsedCap
    /\ polledAt' = ElapsedCap
    /\ sincePoll' = 0
    /\ otherAge' = ElapsedCap
    /\ flipFrom' = <<>>
    /\ UNCHANGED <<progVars, rx, tx, wire, ticksLeft, log, eaten, hold, holdTx>>

\* ----------------------------------------------------------------- inputs

Digits2(n) == <<DigitChars[(n \div 10) + 1], DigitChars[(n % 10) + 1]>>

OutCmd(n, suffix) == OUT_PREFIX \o Digits2(n) \o suffix

InCmd(n) == IN_PREFIX \o Digits2(n)

\* byte streams the remote side may send
Streams ==
    { OutCmd(3, <<"o", "n">>) \o <<CR>> \o OutCmd(3, <<"o", "f", "f">>) \o <<CR>>,
      <<CR, LF>>,
      <<" ">> \o AD_CMD \o <<" ", LF>> \o InCmd(8) \o <<CR, LF>>,
      InCmd(9) \o <<LF>> \o HARDCHECK \o <<CR>> \o <<"$", "a">>,
      OutCmd(12, <<"o", "n">>) \o <<CR>> \o <<"x", LF>>,
      OutCmd(9, <<"o", "n">>) \o <<LF>> \o OutCmd(3, <<"o", "n">>) \o <<LF>>
          \o OutCmd(9, <<"o", "f", "f">>) \o <<LF>> }

\* a short stream whose command answers on the transport
ShortStreams == { AD_CMD \o <<CR>> }

\* arguments handleCommand is called with in the dispatcher specification:
\* non-empty lines without CR or LF, as loop() assembles them
CmdInputs ==
    {OutCmd(n, sfx) : n \in 0..12, sfx \in {<<"o", "n">>, <<"o", "f", "f">>}}
    \cup {InCmd(n) : n \in 0..9}
    \cup { OutCmd(5, <<"x", "x">>),
           OUT_PREFIX \o <<" ", "3", "o", "n">>,
           OUT_PREFIX \o <<"1", "x", "o", "n">>,
           OUT_PREFIX \o <<"A", "1", "o", "n">>,
           OUT_PREFIX \o <<"-", "1", "o", "n">>,
           OUT_PREFIX \o <<"3", "o", "n">>,
           OutCmd(3, <<"O", "N">>),
           OutCmd(3, <<"o", "n", " ">>),
           IN_PREFIX \o <<"A", "B">>,
           IN_PREFIX \o <<"1">>,
           InCmd(4) \o <<"x", "y">>,
           AD_CMD,
           <<" ">> \o AD_CMD \o <<" ">>,
           AD_CMD \o <<"1">>,
           HARDCHECK,
           <<"h", "i">>,
           <<" ">> }

\* ---------------------------------------------------------- specification

\* the state after setup(): all relays off (HIGH), nothing received
InitProgram ==
    /\ initializedIn16 = FALSE
    /\ lastStateIn16 = HIGH
    /\ lastChangeTime = U32(0)
    /\ stableTime = U32(0)
    /\ wasStable = FALSE
    /\ cmd = <<>>
    /\ pcf8574_1 = [i \in 0..7 |-> HIGH]
    /\ pcf8574_2 = [i \in 0..7 |-> HIGH]
    /\ pc = "loop"
    /\ millis = U32(0)
    /\ rx = <<>>
    /\ tx = <<>>
    /\ log = <<>>
    /\ eaten = <<>>
    /\ hold = "none"
    /\ sinceStart = 0
    /\ polledAt = 0
    /\ holdTx = <<>>
    /\ sincePoll = 0
    /\ otherAge = ElapsedCap
    /\ flipFrom = <<>>

\* The inputs are drawn from three families, so that long byte streams, long
\* timing histories and their interplay are each explored in full:
\*   the streams of Streams with a counter that stands still,
\*   no bytes at all with MaxTicks advances of the counter and an idle period,
\*   a short command with LoopTicks advances (one escalation) and an idle period.
Scenarios ==
    ({[wire |-> w, ticks |-> 0, idle |-> 0] : w \in Streams}
     \cup {[wire |-> <<>>, ticks |-> MaxTicks, idle |-> MaxIdle]})
    \cup {[wire |-> w, ticks |-> LoopTicks, idle |-> MaxIdle] : w \in ShortStreams}

Init ==
    /\ InitProgram
    /\ \E sc \in Scenarios :
        /\ wire = sc.wire
        /\ ticksLeft = sc.ticks
        /\ idleLeft = sc.idle

Next ==
    \/ Arrive
    \/ ReadByte
    \/ checkInput16ForHardcheck
    \/ EscalationDelayDone
    \/ Idle

Spec == Init /\ [][Next]_vars

\* The dispatcher on its own: handleCommand applied to lines of CmdInputs.
InitCmd ==
    /\ InitProgram
    /\ wire = <<>>
    /\ ticksLeft = 0
    /\ idleLeft = 0

DispatchLine ==
    /\ Len(log) < MaxDispatch
    /\ \E arg \in CmdInputs : Dispatch(arg)
    /\ UNCHANGED <<debVars, cmd, pc, millis, rx, wire, ticksLeft, idleLeft, eaten, debObs>>

NextCmd == DispatchLine

SpecCmd == InitCmd /\ [][NextCmd]_vars

\* ------------------------------------------------- the debounce machine

ESCALATION == <<(<<CR>>), HARDCHECK \o <<CR>>>>

\* escalations begun: the lone CR writes on the transport
NumEsc(t) == Cardinality({i \in DOMAIN t : t[i] = <<CR>>})

\* C1: in a stretch that began with an accepted level change and in which
\* every poll since has read the same level, the debounce machine has written
\* nothing as long as no poll came more than STABLE_TIME after the start of
\* the stretch, and exactly one escalation (a lone CR, then after the delay
\* "##hardcheck" + CR) from the first such poll on.
C1_OneEscalationPerHold ==
    hold = "accepted" =>
        holdTx = IF polledAt > STABLE_TIME
                 THEN (IF pc = "delay" THEN <<(<<CR>>)>> ELSE ESCALATION)
                 ELSE <<>>

\* the escalation of an accepted stretch, polled STABLE_TIME + 1 ms after its start
C1_Witness ==
    /\ hold = "accepted"
    /\ pc = "loop"
    /\ holdTx = ESCALATION
    /\ U32Sub(millis, stableTime) = U32(STABLE_TIME + 1 + ESCALATION_DELAY)

\* C2: whenever an escalation is emitted, no poll of the preceding STABLE_TIME
\* milliseconds read the other level (the level has been at its value for at
\* least STABLE_TIME).
C2_StableBeforeEscalation == pc = "delay" => otherAge >= STABLE_TIME

\* a poll that observes a level change and resets the timers
AcceptedStep ==
    /\ initializedIn16
    /\ lastStateIn16' # lastStateIn16
    /\ hold' = "accepted"

\* C3: an escalation sets the confirmed flag, and while the flag is set it
\* stays set and no escalation begins in any step other than a poll that
\* accepts a level change.
C3_LatchedUntilAcceptedChange ==
    [][ /\ NumEsc(tx') > NumEsc(tx) => wasStable'
        /\ (wasStable /\ ~AcceptedStep) => (wasStable' /\ NumEsc(tx') = NumEsc(tx))
      ]_vars

\* a second escalation, which an accepted change must have preceded
C3_Witness == NumEsc(tx) = 2 /\ pc = "loop" /\ hold = "accepted"

\* the latest two polls saw a flip and, less than DEBOUNCE_DELAY later, the
\* former level again
FlipReverted ==
    /\ flipFrom # <<>>
    /\ flipFrom[1].revert
    /\ flipFrom[1].gap < DEBOUNCE_DELAY

Last(q) == q[Len(q)]

\* the number field of a command: the two characters at a zero-based offset
NumberField(c, offset) == ToInt(Substring(c, offset, offset + 2))

IsRelayCmd(c) == Len(c) >= 8 /\ StartsWith(c, OUT_PREFIX)

IsInputCmd(c) == Len(c) >= 5 /\ StartsWith(c, IN_PREFIX)

\* relay n is output bit n-1 of bank A (pcf8574_1) for n in 1..8 and bit n-9
\* of bank B (pcf8574_2) for n in 9..11
RelayTarget(n) ==
    IF n <= 8 THEN [chip |-> 1, pin |-> n - 1] ELSE [chip |-> 2, pin |-> n - 9]

RelayWrite(n, c) ==
    [chip |-> RelayTarget(n).chip, pin |-> RelayTarget(n).pin,
     level |-> IF EndsWith(c, ON_SUFFIX) THEN LOW ELSE HIGH]

Bank(chip) == IF chip = 1 THEN pcf8574_1 ELSE pcf8574_2

\* C5: every dispatched command of length >= 8 that starts with "$out" and
\* whose number field parses to n in 1..11 made exactly one expander write, to
\* bank A bit n-1 (n <= 8) or bank B bit n-9, LOW if it ends with "on" and HIGH
\* otherwise; the two-digit decimal form of n parses to n; the latest such
\* write shows on the pin; and the mapping of 1..11 to (bank, bit) is injective.
C5_RelayWrite ==
    /\ \A i \in DOMAIN log :
        LET c == log[i].cmd
            n == NumberField(c, 4)
        IN  /\ (IsRelayCmd(c) /\ n \in 1..11) =>
                    /\ log[i].writes = <<RelayWrite(n, c)>>
                    /\ i = Len(log) => Bank(RelayTarget(n).chip)[RelayTarget(n).pin]
                                           = RelayWrite(n, c).level
            /\ \A k \in 1..11 :
                (IsRelayCmd(c) /\ SubSeq(c, 5, 6) = Digits2(k)) => n = k
    /\ \A m, n \in 1..11 : m # n => RelayPin(m) # RelayPin(n)

\* relay 8 switched on through bank A bit 7, then relay 9 through bank B bit 0
C5_Witness ==
    /\ Len(log) = 2
    /\ log[1].cmd = OutCmd(8, <<"o", "n">>)
    /\ log[2].cmd = OutCmd(9, <<"o", "n">>)
    /\ pcf8574_1[7] = LOW
    /\ pcf8574_2[0] = LOW
    /\ pcf8574_2[1] = HIGH

\* a command the dispatcher drops: a relay command whose number is outside
\* 1..11, an input command whose number is outside 1..8, or no rule at all
Rejected(c) ==
    \/ IsRelayCmd(c) /\ NumberField(c, 4) \notin 1..11
    \/ IsInputCmd(c) /\ NumberField(c, 3) \notin 1..8
    \/ ~IsRelayCmd(c) /\ ~IsInputCmd(c) /\ c # AD_CMD /\ c # HARDCHECK

\* the rejected lines the claim names
RejectedExamples ==
    { OutCmd(0, <<"o", "n">>), OutCmd(12, <<"o", "n">>), OutCmd(12, <<"o", "f", "f">>),
      OUT_PREFIX \o <<"A", "1", "o", "n">>, OUT_PREFIX \o <<"3", "o", "n">>,
      InCmd(0), InCmd(9), IN_PREFIX \o <<"A", "B">>, IN_PREFIX \o <<"1">>,
      <<"h", "i">> }

\* C6: a step that dispatches a rejected command performs no expander write
\* and no read, changes no relay output and writes nothing to the transport;
\* the lines the claim names are rejected.
C6_RejectedDropped ==
    [][ (Len(log') = Len(log) + 1 /\ Rejected(Last(log').cmd)) =>
            /\ Last(log').writes = <<>>
            /\ Last(log').reads = <<>>
            /\ Last(log').adc = <<>>
            /\ Last(log').sent = <<>>
            /\ pcf8574_1' = pcf8574_1
            /\ pcf8574_2' = pcf8574_2
            /\ tx' = tx
      ]_vars
    /\ [][ Len(log') = Len(log) + 1 =>
            (Last(log').arg \in RejectedExamples => Rejected(Last(log').cmd)) ]_vars

\* "$out12on" was dropped and the command after it was carried out
C6_Witness ==
    /\ Len(log) = 2
    /\ log[1].arg = OutCmd(12, <<"o", "n">>)
    /\ log[1].writes = <<>>
    /\ log[2].cmd = OutCmd(3, <<"o", "n">>)
    /\ pcf8574_1[2] = LOW
    /\ pcf8574_2 = [i \in 0..7 |-> HIGH]
    /\ tx = <<>>

RECURSIVE SentBy(_)
SentBy(q) == IF q = <<>> THEN <<>> ELSE Head(q).sent \o SentBy(Tail(q))

\* C7: every dispatched command of length >= 5 that starts with "$in" and
\* whose number field parses to n in 1..8 read input bank A bit n-1 exactly
\* once and wrote exactly one response, "on" + CR if the bit read LOW and
\* "off" + CR otherwise; "$in00" and "$in09" read and wrote nothing; and the
\* transport carries exactly the responses of the dispatched commands.
C7_InputResponse ==
    /\ \A i \in DOMAIN log :
        LET c == log[i].cmd
            n == NumberField(c, 3)
        IN  /\ (IsInputCmd(c) /\ n \in 1..8) =>
                    /\ Len(log[i].reads) = 1
                    /\ log[i].reads[1].pin = n - 1
                    /\ log[i].sent = <<IF log[i].reads[1].level = LOW
                                       THEN <<"o", "n", CR>> ELSE <<"o", "f", "f", CR>> >>
                    /\ log[i].writes = <<>>
            /\ \A k \in 1..8 : c = InCmd(k) => n = k
            /\ c \in {InCmd(0), InCmd(9)} => (log[i].reads = <<>> /\ log[i].sent = <<>>)
    /\ tx = SentBy(log)

\* input 8 read LOW and answered "on", then input 1 read HIGH and answered "off"
C7_Witness ==
    /\ Len(log) = 2
    /\ log[1].cmd = InCmd(8)
    /\ log[1].reads = <<[pin |-> 7, level |-> LOW]>>
    /\ log[2].cmd = InCmd(1)
    /\ log[2].reads = <<[pin |-> 0, level |-> HIGH]>>
    /\ tx = << <<"o", "n", CR>>, <<"o", "f", "f", CR>> >>

\* ------------------------------------------------------ the line assembler

Terminators(b) == {i \in 1..Len(b) : b[i] = CR \/ b[i] = LF}

\* the bytes between the terminator before position i and position i
RunBefore(b, i) ==
    LET before == {j \in Terminators(b) : j < i}
        from == IF before = {} THEN 1 ELSE (CHOOSE j \in before : \A k \in before : k <= j) + 1
    IN  SubSeq(b, from, i - 1)

\* the non-empty runs of b that a CR or LF ends, in order
RECURSIVE RunsAt(_, _)
RunsAt(b, ends) ==
    IF ends = {} THEN <<>>
    ELSE LET i == CHOOSE j \in ends : \A k \in ends : j <= k
         IN  (IF RunBefore(b, i) = <<>> THEN <<>> ELSE <<RunBefore(b, i)>>)
             \o RunsAt(b, ends \ {i})

TerminatedRuns(b) == RunsAt(b, Terminators(b))

NoOuterSpace(c) == c = <<>> \/ (~IsSpace(c[1]) /\ ~IsSpace(c[Len(c)]))

\* C8: the commands dispatched so far are exactly the non-empty runs of
\* non-CR/LF bytes read so far that a CR or LF has ended, once each and in
\* order, each handed over whole and trimmed of outer white space; the buffer
\* holds the unterminated rest, so it is empty after each CR or LF.
C8_LineAssembler ==
    LET runs == TerminatedRuns(eaten)
    IN  /\ Len(log) = Len(runs)
        /\ \A i \in DOMAIN log :
            /\ log[i].arg = runs[i]
            /\ log[i].cmd = Trim(runs[i])
            /\ NoOuterSpace(log[i].cmd)
        /\ cmd = RunBefore(eaten, Len(eaten) + 1)
        /\ (eaten # <<>> /\ (Last(eaten) = CR \/ Last(eaten) = LF)) => cmd = <<>>

\* "$out03on\r$out03off\r" was read whole: two commands, in order, relay 3 off again
C8_Witness ==
    /\ eaten = OutCmd(3, <<"o", "n">>) \o <<CR>> \o OutCmd(3, <<"o", "f", "f">>) \o <<CR>>
    /\ Len(log) = 2
    /\ log[1].cmd = OutCmd(3, <<"o", "n">>)
    /\ log[2].cmd = OutCmd(3, <<"o", "f", "f">>)
    /\ cmd = <<>>
    /\ pcf8574_1[2] = HIGH

\* -------------------------------------------------------------- transport

\* value of a sequence of decimal digits
RECURSIVE DecValue(_)
DecValue(ds) ==
    IF ds = <<>> THEN 0 ELSE 10 * DecValue(SubSeq(ds, 1, Len(ds) - 1)) + DigitVal(Last(ds))

\* exactly four decimal digits and a CR
IsAnalogResponse(t) ==
    /\ Len(t) = 5
    /\ \A i \in 1..4 : IsDigit(t[i])
    /\ t[5] = CR

IsEscalationWrite(t) == t = <<CR>> \/ t = HARDCHECK \o <<CR>>

IsResponse(t) == t = <<"o", "n", CR>> \/ t = <<"o", "f", "f", CR>> \/ IsAnalogResponse(t)

\* C9: every write on the transport is "on" + CR, "off" + CR, four decimal
\* digits + CR, or one of the two writes of the escalation; a "$ad" command
\* wrote exactly the four-digit zero-padded value of its sample, a valid "$in"
\* command one of on/off, every other command nothing; and the responses on
\* the transport are those of the dispatched commands, in order.
C9_TransportWrites ==
    /\ \A i \in DOMAIN tx : IsResponse(tx[i]) \/ IsEscalationWrite(tx[i])
    /\ \A i \in DOMAIN log :
        LET e == log[i]
            c == e.cmd
        IN  IF c = AD_CMD
            THEN /\ Len(e.adc) = 1
                 /\ Len(e.sent) = 1
                 /\ IsAnalogResponse(e.sent[1])
                 /\ DecValue(SubSeq(e.sent[1], 1, 4)) = e.adc[1]
            ELSE IF IsInputCmd(c) /\ ~IsRelayCmd(c) /\ NumberField(c, 3) \in 1..8
            THEN e.sent \in {<< <<"o", "n", CR>> >>, << <<"o", "f", "f", CR>> >>}
            ELSE e.sent = <<>>
    /\ SelectSeq(tx, IsResponse) = SentBy(log)

\* sample 7 was answered "0007" + CR and a whole escalation is on the transport too
C9_Witness ==
    /\ \E i \in DOMAIN tx : tx[i] = <<"0", "0", "0", "7", CR>>
    /\ \E i \in DOMAIN tx : tx[i] = HARDCHECK \o <<CR>>
    /\ Last(log).adc = <<7>>

\* C10: dispatching a valid relay command that is the same as the command
\* dispatched just before it leaves every relay output as it was.
C10_RelayIdempotent ==
    [][ ( /\ Len(log) >= 1
          /\ Len(log') = Len(log) + 1
          /\ Last(log').cmd = Last(log).cmd
          /\ IsRelayCmd(Last(log).cmd)
          /\ NumberField(Last(log).cmd, 4) \in 1..11 )
        => (pcf8574_1' = pcf8574_1 /\ pcf8574_2' = pcf8574_2)
      ]_vars

\* "$out03on" twice: relay 3 is on, every other relay off
C10_Witness ==
    /\ Len(log) = 2
    /\ log[1].cmd = OutCmd(3, <<"o", "n">>)
    /\ log[2].cmd = OutCmd(3, <<"o", "n">>)
    /\ pcf8574_1 = [i \in 0..7 |-> IF i = 2 THEN LOW ELSE HIGH]
    /\ pcf8574_2 = [i \in 0..7 |-> HIGH]

\* ---------------------------------------------------------- the escalation

\* C11: the transport shows every lone CR followed at once by "##hardcheck" +
\* CR (only the last write may be a lone CR, and then the delay is running),
\* and "##hardcheck" + CR only right after a lone CR; while the delay runs no
\* byte is read, no command is dispatched, the buffer is untouched and the
\* only write is "##hardcheck" + CR, which ends the delay; a step that writes
\* without dispatching a command is one of the two writes of the escalation;
\* and a step that initialises, records a level change, or is taken with the
\* confirmed flag set and no command dispatched writes nothing.
C11_EscalationUninterrupted ==
    /\ [](/\ \A i \in DOMAIN tx :
              /\ tx[i] = <<CR>> =>
                    IF i = Len(tx) THEN pc = "delay" ELSE tx[i + 1] = HARDCHECK \o <<CR>>
              /\ tx[i] = HARDCHECK \o <<CR>> => (i > 1 /\ tx[i - 1] = <<CR>>)
          /\ pc = "delay" => (tx # <<>> /\ Last(tx) = <<CR>>))
    /\ [][ /\ pc = "delay" =>
                /\ eaten' = eaten
                /\ log' = log
                /\ cmd' = cmd
                /\ tx' = tx \/ (tx' = Append(tx, HARDCHECK \o <<CR>>) /\ pc' = "loop")
           /\ (tx' # tx /\ log' = log) =>
                \/ pc = "loop" /\ pc' = "delay" /\ tx' = Append(tx, <<CR>>)
                                /\ ~wasStable /\ wasStable'
                \/ pc = "delay" /\ pc' = "loop"
           /\ (initializedIn16' # initializedIn16 \/ lastStateIn16' # lastStateIn16
               \/ (wasStable /\ pc = "loop" /\ log' = log)) => tx' = tx
         ]_vars

\* the delay of an escalation is running while "$a" is in the buffer and the
\* rest of the command, "d" and CR, waits unread in the UART
C11_Witness ==
    /\ pc = "delay"
    /\ Last(tx) = <<CR>>
    /\ cmd = <<"$", "a">>
    /\ rx = <<"d", CR>>

\* ----------------------------------------------------- the counter's wrap

\* C12: a poll that observes a level change accepts it if and only if the
\* true time elapsed since the timers were last set (by the initialising poll
\* or by the last accepted change) exceeds DEBOUNCE_DELAY, also when the
\* millisecond counter has wrapped in between.
C12_AcceptedIffTrulyElapsed ==
    flipFrom # <<>> => (hold = "accepted" <=> ~flipFrom[1].inWindow)

\* ------------------------------------------------------ the loop iteration

\* a step of the edge detector out of the loop: it changes the debounce
\* state, begins an escalation or reads a later counter value
PollStep ==
    /\ pc = "loop"
    /\ debVars' # debVars \/ pc' = "delay" \/ millis' # millis

ChangeObserved == initializedIn16 /\ lastStateIn16' # lastStateIn16

\* the counter value read at the poll exceeds lastChangeTime by more than
\* DEBOUNCE_DELAY, modulo 2^32
NowPastDebounce == U32Gt(U32Sub(millis', lastChangeTime), DEBOUNCE_DELAY)

\* C14: a poll that observes a level change records the new level, writes
\* nothing and begins no escalation; if the counter value it read exceeds
\* lastChangeTime by more than DEBOUNCE_DELAY it sets lastChangeTime and
\* stableTime to that value and clears wasStable, otherwise it leaves all
\* three as they were.
C14_ChangeObservedEffect ==
    [][ ChangeObserved =>
            /\ lastStateIn16' \in Levels
            /\ tx' = tx
            /\ pc' = pc
            /\ initializedIn16'
            /\ IF NowPastDebounce
               THEN /\ lastChangeTime' = millis'
                    /\ stableTime' = millis'
                    /\ wasStable' = FALSE
                    /\ hold' = "accepted"
               ELSE /\ lastChangeTime' = lastChangeTime
                    /\ stableTime' = stableTime
                    /\ wasStable' = wasStable
                    /\ hold' = "bounced"
      ]_vars

\* after an escalation a change was accepted (flag cleared, timers set to the
\* counter value read) and the next change, 100 ms later, was not
C14_Witness ==
    /\ NumEsc(tx) = 1
    /\ hold = "bounced"
    /\ ~wasStable
    /\ lastChangeTime = stableTime
    /\ U32Sub(millis, lastChangeTime) = U32(DEBOUNCE_DELAY)
    /\ flipFrom # <<>>

\* ------------------------------------------------ accepted changes apart

\* a step of the initialised machine that sets the timers anew
TimersReset == initializedIn16 /\ lastChangeTime' # lastChangeTime

\* the milliseconds by which the counter advances in a step of a poll
StepMs == U32Sub(millis', millis)[2]

\* C15: whenever the initialised machine sets its timers anew (an accepted
\* level change), more than DEBOUNCE_DELAY milliseconds of true time have
\* passed since they were last set, by the initialising poll or by the
\* accepted change before.
C15_AcceptedChangesApart ==
    [][ TimersReset =>
            /\ sinceStart + StepMs > DEBOUNCE_DELAY
            /\ lastStateIn16' # lastStateIn16
            /\ sinceStart' = 0
      ]_vars

\* a change accepted at counter 1051, after the escalation, and the next one
\* accepted at 1152, 101 ms later, with a change in between that was not
C15_Witness ==
    /\ NumEsc(tx) = 1
    /\ hold = "accepted"
    /\ sinceStart = 0
    /\ flipFrom # <<>>
    /\ flipFrom[1].was = U32(1051)
    /\ flipFrom[1].revert
    /\ stableTime = U32(1152)

\* ---------------------------------------------------------- re-triggering

\* C16: a level change that has been observed is never lost: an escalation
\* follows if the level stays as it is. An escalation is written only by a
\* poll that finds wasStable false, and a poll that reads the level recorded
\* never clears wasStable, so right after a poll that observed a change the
\* flag must be clear; this is the part of the claim a finite run refutes.
C16_ChangeLeavesEscalationDue == flipFrom # <<>> => ~wasStable

\* ---------------------------------------------------- the untouched input

RelayCmdsFor(n) ==
    {i \in DOMAIN log : IsRelayCmd(log[i].cmd) /\ NumberField(log[i].cmd, 4) = n}

SetMax(S) == CHOOSE i \in S : \A j \in S : j <= i

RelayOutput(n) == Bank(RelayTarget(n).chip)[RelayTarget(n).pin]

\* C18: relay n (1..11) is on (LOW) exactly if a valid "$out" command
\* addressing n has been dispatched and the latest such command ended with
\* "on", and is off (HIGH) otherwise, so all are off after setup; the unused
\* bits of bank B stay HIGH; a step that dispatches a valid "$out" command
\* for relay n leaves every other output bit as it was, and every other step
\* (any other command, reading a byte, a poll, both halves of the escalation,
\* a byte arriving) leaves both banks unchanged.
C18_RelaysFollowLastOut ==
    /\ [](/\ \A n \in 1..11 :
              /\ RelayOutput(n) \in Levels
              /\ RelayOutput(n) = LOW <=>
                    /\ RelayCmdsFor(n) # {}
                    /\ EndsWith(log[SetMax(RelayCmdsFor(n))].cmd, ON_SUFFIX)
          /\ \A i \in 3..7 : pcf8574_2[i] = HIGH)
    /\ [][ IF /\ Len(log') = Len(log) + 1
              /\ IsRelayCmd(Last(log').cmd)
              /\ NumberField(Last(log').cmd, 4) \in 1..11
           THEN \A m \in 1..11 :
                    m # NumberField(Last(log').cmd, 4) => RelayOutput(m)' = RelayOutput(m)
           ELSE pcf8574_1' = pcf8574_1 /\ pcf8574_2' = pcf8574_2
         ]_vars

\* "$out09on", "$out03on", "$out09off" were dispatched with polls of the
\* input in between: relay 3 is on, relay 9 and all others are off again
C18_Witness ==
    /\ Len(log) = 3
    /\ log[1].cmd = OutCmd(9, <<"o", "n">>)
    /\ log[3].cmd = OutCmd(9, <<"o", "f", "f">>)
    /\ initializedIn16
    /\ hold = "bounced"
    /\ pcf8574_1 = [i \in 0..7 |-> IF i = 2 THEN LOW ELSE HIGH]
    /\ pcf8574_2 = [i \in 0..7 |-> HIGH]

\* ------------------------------------------------- bytes over iterations

\* what one drain of the bytes, starting with an empty buffer, hands to
\* handleCommand and leaves in the buffer
OneDrain(bytes) == Assemble(bytes, <<>>, <<>>)

\* C19: however the bytes read so far were spread over drains, polls and
\* escalation delays, the commands handed to handleCommand and the buffer are
\* those of one drain of the same bytes, and each command was trimmed and
\* carried out as handleCommand does for that line; the bytes are read in
\* the order sent, none lost or added; and a step that reads no byte (a poll,
\* either half of the escalation, an arrival) leaves the buffer and the
\* dispatched commands as they were.
C19_DispatchIndependentOfDrains ==
    /\ [](/\ [i \in DOMAIN log |-> log[i].arg] = OneDrain(eaten).cmds
          /\ cmd = OneDrain(eaten).cmd
          /\ \A i \in DOMAIN log :
                /\ log[i].cmd = Trim(log[i].arg)
                /\ log[i].writes = handleCommand(log[i].arg, HIGH, 0).writes)
    /\ [][ /\ (eaten \o rx \o wire)' = eaten \o rx \o wire
           /\ eaten' = eaten => (cmd' = cmd /\ log' = log)
         ]_vars

\* "$a" is in the buffer while the delay of an escalation runs and "d" + CR
\* has yet to arrive: the line is split over two iterations
C19_Witness ==
    /\ pc = "delay"
    /\ eaten = <<"$", "a">>
    /\ cmd = <<"$", "a">>
    /\ rx = <<>>
    /\ wire = <<"d", CR>>

\* ------------------------------------------------------ the two timestamps

\* C20: in every reachable state lastChangeTime and stableTime are equal: the
\* debounce window and the stability stretch are measured from the same
\* counter value.
C20_TimestampsEqual == lastChangeTime = stableTime

\* both timestamps are 900, set together by the poll at 900, and kept by the
\* poll at 901 that observed a change without accepting it
C20_Witness ==
    /\ hold = "bounced"
    /\ flipFrom # <<>>
    /\ flipFrom[1].was = U32(900)
    /\ lastChangeTime = U32(900)
    /\ stableTime = U32(900)
    /\ millis = U32(901)

====
